---------------------------- MODULE Spec2Model ----------------------------
(***************************************************************************)
(* Entertainment AI Agent (src/main.py): the in-memory catalog, the user   *)
(* profiles, the match-score / trending ranking, the substring search and  *)
(* the load/save boundary, as a state machine.                             *)
(*                                                                         *)
(* Numbers.  A rating r is held in tenths (8.8 is 88), so that r / 10.0 is *)
(* the same numeral in hundredths (0.88 is 88).  Every match score is held *)
(* in hundredths (1.63 is 163): the score is a sum of multiples of 0.01.   *)
(* Python computes it in binary floating point; the model is the exact     *)
(* sum.                                                                    *)
(*                                                                         *)
(* Optional values.  None is <<>>, a present value v is <<v>>.             *)
(* Ordered dicts.  A dict keyed by item id is the sequence of its values   *)
(* in insertion order (the key is the value's item_id).                    *)
(***************************************************************************)
EXTENDS Integers, Sequences, FiniteSets, TLC

VARIABLES
    db,            \* EntertainmentDatabase: [movies, music, books, games]
    users,         \* EntertainmentAIAgent.users: user id -> UserProfile
    current_user,  \* EntertainmentAIAgent.current_user: <<>> (None) or <<id>>
    dbfile,        \* the catalog file save_to_file wrote (MissingFile: none)
    call,          \* the last operation called, with its arguments
    ret            \* what that operation returned, or the exception it raised

vars == <<db, users, current_user, dbfile, call, ret>>

(***************************************************************************)
(* Generic helpers                                                         *)
(***************************************************************************)
None == <<>>

Some(v) == <<v>>

\* Python's `v in lst` for a list lst.
InList(v, lst) == \E i \in 1..Len(lst) : lst[i] = v

Range(s) == {s[i] : i \in 1..Len(s)}

Min(a, b) == IF a <= b THEN a ELSE b

Max(a, b) == IF a >= b THEN a ELSE b

Abs(n) == IF n < 0 THEN -n ELSE n

\* A call's outcome: a returned value, or an exception raised to the caller.
Return(v) == [exc |-> "", val |-> <<v>>]

Raise(e) == [exc |-> e, val |-> <<>>]

Raised(r) == r.exc # ""

(***************************************************************************)
(* Items (classes Movie, Music, Book, Game) and the sample data            *)
(***************************************************************************)
Movie(item_id, title, genre, year, rating, director, actors, duration) ==
    [item_id |-> item_id, title |-> title, genre |-> genre, year |-> year,
     rating |-> rating, director |-> director, actors |-> actors,
     duration |-> duration]

Music(item_id, title, genre, year, rating, artist, album, duration) ==
    [item_id |-> item_id, title |-> title, genre |-> genre, year |-> year,
     rating |-> rating, artist |-> artist, album |-> album,
     duration |-> duration]

Book(item_id, title, genre, year, rating, author, pages, publisher) ==
    [item_id |-> item_id, title |-> title, genre |-> genre, year |-> year,
     rating |-> rating, author |-> author, pages |-> pages,
     publisher |-> publisher]

Game(item_id, title, genre, year, rating, developer, platforms, multiplayer) ==
    [item_id |-> item_id, title |-> title, genre |-> genre, year |-> year,
     rating |-> rating, developer |-> developer, platforms |-> platforms,
     multiplayer |-> multiplayer]

SampleMovies ==
    << Movie("m1", "The Shawshank Redemption", <<"Drama">>, 1994, 93,
             "Frank Darabont", <<"Tim Robbins", "Morgan Freeman">>, 142),
       Movie("m2", "The Godfather", <<"Crime", "Drama">>, 1972, 92,
             "Francis Ford Coppola", <<"Marlon Brando", "Al Pacino">>, 175),
       Movie("m3", "Inception", <<"Action", "Sci-Fi">>, 2010, 88,
             "Christopher Nolan",
             <<"Leonardo DiCaprio", "Joseph Gordon-Levitt">>, 148),
       Movie("m4", "Parasite", <<"Drama", "Thriller">>, 2019, 86,
             "Bong Joon Ho", <<"Song Kang-ho", "Lee Sun-kyun">>, 132),
       Movie("m5", "Avengers: Endgame", <<"Action", "Adventure", "Sci-Fi">>,
             2019, 84, "Anthony Russo, Joe Russo",
             <<"Robert Downey Jr.", "Chris Evans">>, 181) >>

SampleMusic ==
    << Music("mu1", "Bohemian Rhapsody", <<"Rock">>, 1975, 95,
             "Queen", Some("A Night at the Opera"), Some(354)),
       Music("mu2", "Thriller", <<"Pop", "R&B">>, 1982, 94,
             "Michael Jackson", Some("Thriller"), Some(293)),
       Music("mu3", "Back in Black", <<"Rock", "Hard Rock">>, 1980, 90,
             "AC/DC", Some("Back in Black"), Some(255)),
       Music("mu4", "After Hours", <<"R&B", "Pop">>, 2020, 87,
             "The Weeknd", Some("After Hours"), Some(214)),
       Music("mu5", "folklore", <<"Alternative", "Pop">>, 2020, 89,
             "Taylor Swift", Some("folklore"), Some(246)) >>

SampleBooks ==
    << Book("b1", "To Kill a Mockingbird", <<"Fiction", "Classic">>, 1960, 92,
            "Harper Lee", 281, "J. B. Lippincott & Co."),
       Book("b2", "1984", <<"Dystopian", "Science Fiction">>, 1949, 91,
            "George Orwell", 328, "Secker & Warburg"),
       Book("b3", "The Lord of the Rings", <<"Fantasy", "Adventure">>, 1954, 93,
            "J.R.R. Tolkien", 1178, "Allen & Unwin"),
       Book("b4", "The Hunger Games",
            <<"Dystopian", "Science Fiction", "Young Adult">>, 2008, 86,
            "Suzanne Collins", 374, "Scholastic"),
       Book("b5", "Educated", <<"Memoir", "Biography">>, 2018, 89,
            "Tara Westover", 334, "Random House") >>

SampleGames ==
    << Game("g1", "The Legend of Zelda: Breath of the Wild",
            <<"Action", "Adventure">>, 2017, 95, "Nintendo",
            <<"Nintendo Switch", "Wii U">>, FALSE),
       Game("g2", "The Witcher 3: Wild Hunt", <<"Action", "RPG">>, 2015, 94,
            "CD Projekt Red",
            <<"PC", "PlayStation 4", "Xbox One", "Nintendo Switch">>, FALSE),
       Game("g3", "Fortnite", <<"Battle Royale", "Survival">>, 2017, 88,
            "Epic Games",
            <<"PC", "PlayStation", "Xbox", "Nintendo Switch", "Mobile">>, TRUE),
       Game("g4", "Red Dead Redemption 2", <<"Action", "Adventure">>, 2018, 97,
            "Rockstar Games", <<"PlayStation 4", "Xbox One", "PC">>, TRUE),
       Game("g5", "Minecraft", <<"Sandbox", "Survival">>, 2011, 93,
            "Mojang", <<"PC", "Console", "Mobile">>, TRUE) >>

\* EntertainmentDatabase.__init__ followed by _load_sample_data.
SampleDb ==
    [movies |-> SampleMovies, music |-> SampleMusic,
     books |-> SampleBooks, games |-> SampleGames]

EmptyDb == [movies |-> <<>>, music |-> <<>>, books |-> <<>>, games |-> <<>>]

Kinds == {"movie", "music", "book", "game"}

\* The collection of a kind: the dispatch of get_recommendations, get_trending.
Coll(kind) ==
    CASE kind = "movie" -> "movies"
      [] kind = "music" -> "music"
      [] kind = "book" -> "books"
      [] kind = "game" -> "games"

\* get_movies, get_music, get_books, get_games: list(self.<coll>.values()).
get_items(d, kind) == IF kind \in Kinds THEN d[Coll(kind)] ELSE <<>>


\* No collection of the catalogs explored holds more items than this.
MaxItems == 6

(***************************************************************************)
(* UserProfile                                                             *)
(***************************************************************************)
\* UserProfile.__init__
UserProfile(user_id, name) ==
    [user_id |-> user_id, name |-> name,
     preferences |->
        [movie |-> [genres |-> <<>>, actors |-> <<>>, directors |-> <<>>,
                    years |-> <<>>, ratings |-> <<>>],
         music |-> [genres |-> <<>>, artists |-> <<>>, years |-> <<>>,
                    ratings |-> <<>>],
         book |-> [genres |-> <<>>, authors |-> <<>>, years |-> <<>>,
                   ratings |-> <<>>],
         game |-> [genres |-> <<>>, developers |-> <<>>, platforms |-> <<>>,
                   years |-> <<>>, ratings |-> <<>>]],
     history |-> [movie |-> <<>>, music |-> <<>>, book |-> <<>>, game |-> <<>>]]

\* add_preference without the `value not in` test.
add_preference_AlwaysAppend(user, media_type, category, value) ==
    IF /\ media_type \in DOMAIN user.preferences
       /\ category \in DOMAIN user.preferences[media_type]
    THEN [user EXCEPT !.preferences[media_type][category] = Append(@, value)]
    ELSE user

\* UserProfile.add_preference: the profile after the call.
add_preference(user, media_type, category, value) ==
    IF /\ media_type \in DOMAIN user.preferences
       /\ category \in DOMAIN user.preferences[media_type]
       /\ ~InList(value, user.preferences[media_type][category])
    THEN [user EXCEPT !.preferences[media_type][category] = Append(@, value)]
    ELSE user

\* UserProfile.add_to_history: the profile after the call.
profile_add_to_history(user, media_type, item_id) ==
    IF /\ media_type \in DOMAIN user.history
       /\ ~InList(item_id, user.history[media_type])
    THEN [user EXCEPT !.history[media_type] = Append(@, item_id)]
    ELSE user

\* UserProfile.to_dict
profile_to_dict(user) ==
    [user_id |-> user.user_id, name |-> user.name,
     preferences |-> user.preferences, history |-> user.history]

\* UserProfile.from_dict: data["user_id"], data["name"], data["preferences"]
\* and data["history"] are subscripted, so a record lacking one raises
\* KeyError; the two mappings are taken as they are, unchecked.
from_dict(data) ==
    IF {"user_id", "name", "preferences", "history"} \subseteq DOMAIN data
    THEN Return([user_id |-> data.user_id, name |-> data.name,
                 preferences |-> data.preferences, history |-> data.history])
    ELSE Raise("KeyError")

(***************************************************************************)
(* RecommendationEngine.calculate_match_score                              *)
(***************************************************************************)
\* for x in xs: if x in prefs: score += w
RECURSIVE SumMatches(_, _, _)
SumMatches(xs, prefs, w) ==
    IF xs = <<>> THEN 0
    ELSE (IF InList(Head(xs), prefs) THEN w ELSE 0)
         + SumMatches(Tail(xs), prefs, w)

\* for platform in item.platforms: if platform in prefs: score += 0.2; break
RECURSIVE FirstMatch(_, _, _)
FirstMatch(xs, prefs, w) ==
    IF xs = <<>> THEN 0
    ELSE IF InList(Head(xs), prefs) THEN w
    ELSE FirstMatch(Tail(xs), prefs, w)

\* YearBonus with `if` for `elif`: both bonuses for an exact match.
YearBonus_Both(year, user_years) ==
    (IF InList(year, user_years) THEN 20 ELSE 0)
    + (IF \E i \in 1..Len(user_years) : Abs(year - user_years[i]) <= 5
       THEN 10 ELSE 0)

\* if item.year in user_years: +0.2
\* elif any(abs(item.year - year) <= 5 for year in user_years): +0.1
YearBonus(year, user_years) ==
    IF InList(year, user_years) THEN 20
    ELSE IF \E i \in 1..Len(user_years) : Abs(year - user_years[i]) <= 5
         THEN 10
    ELSE 0

\* The subscripts calculate_match_score evaluates that raise KeyError when
\* the profile's mappings lack the key (a profile built by from_dict).
ScoreKeyError(item, user, media_type) ==
    LET P == user.preferences
        Has(k, c) == k \in DOMAIN P /\ c \in DOMAIN P[k]
    IN  \/ ~Has(media_type, "genres")
        \/ ~Has(media_type, "years")
        \/ /\ media_type = "movie"
           /\ \/ ~Has("movie", "directors")
              \/ item.actors # <<>> /\ ~Has("movie", "actors")
        \/ media_type = "music" /\ ~Has("music", "artists")
        \/ media_type = "book" /\ ~Has("book", "authors")
        \/ /\ media_type = "game"
           /\ \/ ~Has("game", "developers")
              \/ item.platforms # <<>> /\ ~Has("game", "platforms")
        \/ media_type \notin DOMAIN user.history

KindBonus(item, user, media_type) ==
    CASE media_type = "movie" ->
           (IF InList(item.director, user.preferences["movie"]["directors"])
            THEN 20 ELSE 0)
           + (IF item.actors = <<>> THEN 0
              ELSE SumMatches(item.actors,
                              user.preferences["movie"]["actors"], 15))
      [] media_type = "music" ->
           (IF InList(item.artist, user.preferences["music"]["artists"])
            THEN 40 ELSE 0)
      [] media_type = "book" ->
           (IF InList(item.author, user.preferences["book"]["authors"])
            THEN 40 ELSE 0)
      [] media_type = "game" ->
           (IF InList(item.developer, user.preferences["game"]["developers"])
            THEN 20 ELSE 0)
           + (IF item.platforms = <<>> THEN 0
              ELSE FirstMatch(item.platforms,
                              user.preferences["game"]["platforms"], 20))
      [] OTHER -> 0

\* HistoryPenalty with 0.5 for 1.0.
HistoryPenalty_Half(item, user, media_type) ==
    IF InList(item.item_id, user.history[media_type]) THEN 50 ELSE 0

HistoryPenalty(item, user, media_type) ==
    IF InList(item.item_id, user.history[media_type]) THEN 100 ELSE 0

\* The score, in hundredths, or the KeyError raised.
calculate_match_score(item, user, media_type) ==
    IF ScoreKeyError(item, user, media_type) THEN Raise("KeyError")
    ELSE Return(item.rating
                + SumMatches(item.genre,
                             user.preferences[media_type]["genres"], 30)
                + YearBonus(item.year, user.preferences[media_type]["years"])
                + KindBonus(item, user, media_type)
                - HistoryPenalty(item, user, media_type))

(***************************************************************************)
(* to_dict of the four item classes                                        *)
(***************************************************************************)
\* EntertainmentItem.to_dict
base_to_dict(item) ==
    [id |-> item.item_id, title |-> item.title, genre |-> item.genre,
     year |-> item.year, rating |-> item.rating]

\* dict.update: the keys of b added to a.
Update(a, b) ==
    [k \in DOMAIN a \cup DOMAIN b |-> IF k \in DOMAIN b THEN b[k] ELSE a[k]]

movie_to_dict(item) ==
    Update(base_to_dict(item),
           [director |-> item.director, actors |-> item.actors,
            duration |-> item.duration, type |-> "movie"])

\* Music.to_dict without the "album" key.
music_to_dict_NoAlbum(item) ==
    Update(base_to_dict(item),
           [artist |-> item.artist, duration |-> item.duration,
            type |-> "music"])

music_to_dict(item) ==
    Update(base_to_dict(item),
           [artist |-> item.artist, album |-> item.album,
            duration |-> item.duration, type |-> "music"])

book_to_dict(item) ==
    Update(base_to_dict(item),
           [author |-> item.author, pages |-> item.pages,
            publisher |-> item.publisher, type |-> "book"])

game_to_dict(item) ==
    Update(base_to_dict(item),
           [developer |-> item.developer, platforms |-> item.platforms,
            multiplayer |-> item.multiplayer, type |-> "game"])

\* item.to_dict(): the method of the item's class.
to_dict(item) ==
    CASE "director" \in DOMAIN item -> movie_to_dict(item)
      [] "artist" \in DOMAIN item -> music_to_dict(item)
      [] "author" \in DOMAIN item -> book_to_dict(item)
      [] "developer" \in DOMAIN item -> game_to_dict(item)

(***************************************************************************)
(* RecommendationEngine.get_recommendations and get_trending               *)
(***************************************************************************)
\* InsertDesc with > for >=: equal scores come out in reverse order.
RECURSIVE InsertDesc_Unstable(_, _)
InsertDesc_Unstable(sorted, x) ==
    IF sorted = <<>> THEN <<x>>
    ELSE IF Head(sorted).score > x.score
         THEN <<Head(sorted)>> \o InsertDesc_Unstable(Tail(sorted), x)
    ELSE <<x>> \o sorted

\* One step of a stable descending sort: x goes after every entry whose
\* score is >= its own, before the first entry with a lower score.
RECURSIVE InsertDesc(_, _)
InsertDesc(sorted, x) ==
    IF sorted = <<>> THEN <<x>>
    ELSE IF Head(sorted).score >= x.score
         THEN <<Head(sorted)>> \o InsertDesc(Tail(sorted), x)
    ELSE <<x>> \o sorted

\* scored_items.sort(key=lambda x: x[1], reverse=True): Python's sort is
\* stable, and reverse=True keeps the original order of equal keys.
RECURSIVE SortDesc(_)
SortDesc(scored) ==
    IF scored = <<>> THEN <<>>
    ELSE InsertDesc(SortDesc(SubSeq(scored, 1, Len(scored) - 1)),
                    scored[Len(scored)])

\* Python's lst[:count]: a negative count drops the last -count entries.
Slice(lst, count) ==
    IF count >= 0 THEN SubSeq(lst, 1, Min(count, Len(lst)))
    ELSE SubSeq(lst, 1, Max(Len(lst) + count, 0))

\* The scored ranking of the kind before the slice.
RankedByMatch(d, user, media_type) ==
    LET all_items == get_items(d, media_type)
    IN  SortDesc([i \in 1..Len(all_items) |->
           [item |-> all_items[i],
            score |-> calculate_match_score(all_items[i], user,
                                            media_type).val[1]]])

\* RecommendationEngine.get_recommendations: the list returned, or the
\* KeyError of the first item's score.
engine_get_recommendations(d, user, media_type, count) ==
    LET all_items == get_items(d, media_type)
    IN  IF \E i \in 1..Len(all_items) :
              Raised(calculate_match_score(all_items[i], user, media_type))
        THEN Raise("KeyError")
        ELSE LET top == Slice(RankedByMatch(d, user, media_type), count)
             IN  Return([i \in 1..Len(top) |-> to_dict(top[i].item)])

\* (current_year - item.year) * 0.1 + item.rating, in tenths.
trending_score(item, current_year) == (current_year - item.year) + item.rating

\* RecommendationEngine.get_trending
engine_get_trending(d, media_type, count, current_year) ==
    LET all_items == get_items(d, media_type)
        top == Slice(SortDesc([i \in 1..Len(all_items) |->
                        [item |-> all_items[i],
                         score |-> trending_score(all_items[i],
                                                  current_year)]]), count)
    IN  [i \in 1..Len(top) |-> to_dict(top[i].item)]

(***************************************************************************)
(* Strings: str.lower() and the substring test `a in b`                    *)
(***************************************************************************)
\* The lower-case letter of each upper-case letter.
LowerTable ==
    [A |-> "a", B |-> "b", C |-> "c", D |-> "d", E |-> "e", F |-> "f",
     G |-> "g", H |-> "h", I |-> "i", J |-> "j", K |-> "k", L |-> "l",
     M |-> "m", N |-> "n", O |-> "o", P |-> "p", Q |-> "q", R |-> "r",
     S |-> "s", T |-> "t", U |-> "u", V |-> "v", W |-> "w", X |-> "x",
     Y |-> "y", Z |-> "z"]

\* One character lower-cased.
LowerChar(c) == IF c \in DOMAIN LowerTable THEN LowerTable[c] ELSE c

\* str.lower()
RECURSIVE Lower(_)
Lower(str) ==
    IF Len(str) = 0 THEN ""
    ELSE LowerChar(SubSeq(str, 1, 1)) \o Lower(SubSeq(str, 2, Len(str)))

\* Python's `a in b` for strings: a occurs in b as a contiguous substring.
Contains(b, a) ==
    \E i \in 1..(Len(b) - Len(a) + 1) : SubSeq(b, i, i + Len(a) - 1) = a

(***************************************************************************)
(* EntertainmentAIAgent.search                                             *)
(***************************************************************************)
\* for genre in item.genre: if query in genre.lower(): return True
RECURSIVE AnyGenreMatches(_, _)
AnyGenreMatches(genres, q) ==
    IF genres = <<>> THEN FALSE
    ELSE IF Contains(Lower(Head(genres)), q) THEN TRUE
    ELSE AnyGenreMatches(Tail(genres), q)

\* matches_query without the genre loop.
matches_query_TitleOnly(item, q) == Contains(Lower(item.title), q)

\* matches_query, with q the lower-cased query.
matches_query(item, q) ==
    IF Contains(Lower(item.title), q) THEN TRUE
    ELSE AnyGenreMatches(item.genre, q)

\* [x.to_dict() for x in items if matches_query(x)]
RECURSIVE MatchingDicts(_, _)
MatchingDicts(items, q) ==
    IF items = <<>> THEN <<>>
    ELSE (IF matches_query(Head(items), q) THEN <<to_dict(Head(items))>>
          ELSE <<>>)
         \o MatchingDicts(Tail(items), q)

\* One `if media_type == kind or media_type is None:` block of search:
\* results with the kind's group added when it is selected and non-empty.
SearchBlock(results, d, q, media_type, kind) ==
    IF media_type = Some(kind) \/ media_type = None
    THEN LET found == MatchingDicts(get_items(d, kind), q)
         IN  IF found # <<>>
             THEN Update(results, [k \in {Coll(kind)} |-> found])
             ELSE results
    ELSE results

\* The empty dict {}.
EmptyDict == [k \in {} |-> <<>>]

\* EntertainmentAIAgent.search: media_type is None or Some(string).
search_result(d, query, media_type) ==
    LET q == Lower(query)
        r1 == SearchBlock(EmptyDict, d, q, media_type, "movie")
        r2 == SearchBlock(r1, d, q, media_type, "music")
        r3 == SearchBlock(r2, d, q, media_type, "book")
    IN  SearchBlock(r3, d, q, media_type, "game")

(***************************************************************************)
(* EntertainmentDatabase: add_*, save_to_file, load_from_file              *)
(***************************************************************************)
\* self.<coll>[item.item_id] = item: an existing key keeps its place in the
\* dict and takes the new value, a new key goes last.
add_item(coll, item) ==
    IF \E i \in 1..Len(coll) : coll[i].item_id = item.item_id
    THEN [i \in 1..Len(coll) |->
            IF coll[i].item_id = item.item_id THEN item ELSE coll[i]]
    ELSE Append(coll, item)

add_movie(d, movie) == [d EXCEPT !.movies = add_item(@, movie)]

add_music(d, music) == [d EXCEPT !.music = add_item(@, music)]

add_book(d, book) == [d EXCEPT !.books = add_item(@, book)]

add_game(d, game) == [d EXCEPT !.games = add_item(@, game)]

\* A file on disk: absent, not JSON, JSON that is no object, or a JSON
\* object (data: key -> sequence of the records of that mapping, in order).
MissingFile == [state |-> "missing", data |-> <<>>]

GarbageFile == [state |-> "garbage", data |-> <<>>]

ListFile == [state |-> "list", data |-> <<>>]

DictFile(data) == [state |-> "dict", data |-> data]

\* {k: v.to_dict() for k, v in coll.items()}
DictsOf(coll) == [i \in 1..Len(coll) |-> to_dict(coll[i])]

\* EntertainmentDatabase.save_to_file: the file written.
save_to_file(d) ==
    DictFile([movies |-> DictsOf(d.movies), music |-> DictsOf(d.music),
              books |-> DictsOf(d.books), games |-> DictsOf(d.games)])

\* dict.get(key): None when the key is absent.
Get(rec, key) == IF key \in DOMAIN rec THEN rec[key] ELSE None

\* The keys load_from_file subscripts in a record of each mapping.
RequiredKeys(coll) ==
    {"id", "title", "genre", "year", "rating"} \cup
    (CASE coll = "movies" -> {"director", "actors", "duration"}
       [] coll = "music" -> {"artist"}
       [] coll = "books" -> {"author", "pages", "publisher"}
       [] coll = "games" -> {"developer", "platforms", "multiplayer"})

\* The item load_from_file constructs from one record.
item_from_dict(coll, r) ==
    CASE coll = "movies" ->
           Movie(r.id, r.title, r.genre, r.year, r.rating,
                 r.director, r.actors, r.duration)
      [] coll = "music" ->
           Music(r.id, r.title, r.genre, r.year, r.rating,
                 r.artist, Get(r, "album"), Get(r, "duration"))
      [] coll = "books" ->
           Book(r.id, r.title, r.genre, r.year, r.rating,
                r.author, r.pages, r.publisher)
      [] coll = "games" ->
           Game(r.id, r.title, r.genre, r.year, r.rating,
                r.developer, r.platforms, r.multiplayer)

\* for _, data in data.get(coll, {}).items(): self.add_<kind>(<Kind>(...)),
\* from record n on; a record lacking a subscripted key raises KeyError and
\* the items added so far stay.
RECURSIVE LoadRecords(_, _, _, _)
LoadRecords(acc, recs, n, coll) ==
    IF n > Len(recs) THEN [items |-> acc, ok |-> TRUE]
    ELSE IF ~(RequiredKeys(coll) \subseteq DOMAIN recs[n])
         THEN [items |-> acc, ok |-> FALSE]
    ELSE LoadRecords(add_item(acc, item_from_dict(coll, recs[n])),
                     recs, n + 1, coll)

LoadColl(data, coll) ==
    LoadRecords(<<>>, IF coll \in DOMAIN data THEN data[coll] ELSE <<>>,
                1, coll)

\* EntertainmentDatabase.load_from_file: the database afterwards and the
\* value returned.  open() and json.load() fail before the collections are
\* cleared; everything after happens on the cleared collections.
load_from_file(d, file) ==
    IF file.state \in {"missing", "garbage"} THEN [db |-> d, ok |-> FALSE]
    ELSE IF file.state = "list" THEN [db |-> EmptyDb, ok |-> FALSE]
    ELSE LET mo == LoadColl(file.data, "movies")
             mu == LoadColl(file.data, "music")
             bo == LoadColl(file.data, "books")
             ga == LoadColl(file.data, "games")
         IN  IF ~mo.ok THEN [db |-> [EmptyDb EXCEPT !.movies = mo.items],
                             ok |-> FALSE]
             ELSE IF ~mu.ok
                  THEN [db |-> [EmptyDb EXCEPT !.movies = mo.items,
                                               !.music = mu.items],
                        ok |-> FALSE]
             ELSE IF ~bo.ok
                  THEN [db |-> [movies |-> mo.items, music |-> mu.items,
                                books |-> bo.items, games |-> <<>>],
                        ok |-> FALSE]
             ELSE [db |-> [movies |-> mo.items, music |-> mu.items,
                           books |-> bo.items, games |-> ga.items],
                   ok |-> ga.ok]

(***************************************************************************)
(* EntertainmentAIAgent: the facade                                        *)
(***************************************************************************)
\* self.users[key] = value
Put(f, key, value) ==
    [k \in DOMAIN f \cup {key} |-> IF k = key THEN value ELSE f[k]]

\* f"user_{n}"
UserId(n) == "user_" \o ToString(n)

\* for user_id, user_data in users_data.items():
\*     self.users[user_id] = UserProfile.from_dict(user_data)
\* from entry n on; the first entry from_dict raises on ends the loop, the
\* entries stored before it stay stored.
RECURSIVE LoadUsers(_, _, _)
LoadUsers(us, entries, n) ==
    IF n > Len(entries) THEN [users |-> us, ok |-> TRUE]
    ELSE LET made == from_dict(entries[n].val)
         IN  IF Raised(made) THEN [users |-> us, ok |-> FALSE]
             ELSE LoadUsers(Put(us, entries[n].key, made.val[1]),
                            entries, n + 1)

\* The try block of load_data: the users afterwards and the value returned.
load_users(us, file) ==
    IF file.state = "dict" THEN LoadUsers(us, file.data, 1)
    ELSE [users |-> us, ok |-> FALSE]

\* The recommendations dict of EntertainmentAIAgent.get_recommendations for
\* user, or the exception an engine call raised.  media_type is None or
\* Some(string); `if media_type:` is false for None and for "".
agent_recommendations(d, user, media_type, count) ==
    IF media_type # None /\ media_type # Some("")
    THEN IF media_type[1] \in Kinds
         THEN LET r == engine_get_recommendations(d, user, media_type[1],
                                                  count)
              IN  IF Raised(r) THEN r
                  ELSE Return([k \in {media_type[1]} |-> r.val[1]])
         ELSE Return(EmptyDict)
    ELSE LET mo == engine_get_recommendations(d, user, "movie", count)
             mu == engine_get_recommendations(d, user, "music", count)
             bo == engine_get_recommendations(d, user, "book", count)
             ga == engine_get_recommendations(d, user, "game", count)
         IN  IF Raised(mo) THEN mo
             ELSE IF Raised(mu) THEN mu
             ELSE IF Raised(bo) THEN bo
             ELSE IF Raised(ga) THEN ga
             ELSE Return([movies |-> mo.val[1], music |-> mu.val[1],
                          books |-> bo.val[1], games |-> ga.val[1]])

\* The trending dict of EntertainmentAIAgent.get_trending.
agent_trending(d, media_type, count, current_year) ==
    IF media_type # None /\ media_type # Some("")
    THEN IF media_type[1] \in Kinds
         THEN [k \in {media_type[1]} |->
                 engine_get_trending(d, media_type[1], count, current_year)]
         ELSE EmptyDict
    ELSE [movies |-> engine_get_trending(d, "movie", count, current_year),
          music |-> engine_get_trending(d, "music", count, current_year),
          books |-> engine_get_trending(d, "book", count, current_year),
          games |-> engine_get_trending(d, "game", count, current_year)]

(***************************************************************************)
(* Inputs of the facade's operations                                       *)
(***************************************************************************)
\* create_user is called while fewer than MaxUsers profiles exist.
MaxUsers == 2

Names == {"John"}

UserIdArgs == {"user_1", "user_2", "nobody"}

\* (media_type, category, value): recognized, unknown kind, unknown category.
PrefCalls ==
    { <<"movie", "genres", "Action">>,
      <<"podcast", "genres", "Action">>,
      <<"movie", "mood", "Action">> }

\* (media_type, item_id)
HistCalls == { <<"movie", "m3">>, <<"podcast", "m3">> }

\* media_type: all kinds (None), a kind, a string that names no kind.
KindArgs == {None, Some("movie"), Some("podcast")}

TrendingKindArgs == {None, Some("game")}

SearchKindArgs == {None, Some("podcast")}

FacadeCounts == {3}

FacadeQueries == {"ACTION"}

\* datetime.now().year at the call.
CurrentYears == {2025}

\* A well-formed record of the profile file, as save_data writes it.
AnnEntry ==
    [key |-> "user_1",
     val |-> profile_to_dict(
               add_preference(
                 profile_add_to_history(UserProfile("user_1", "Ann"),
                                        "movie", "m1"),
                 "movie", "genres", "Drama"))]

\* A record without "name": from_dict raises KeyError.
BadEntry == [key |-> "user_9", val |-> [user_id |-> "user_9"]]

\* A record from_dict accepts whose mappings lack kinds and categories.
SparseEntry ==
    [key |-> "user_2",
     val |-> [user_id |-> "user_2", name |-> "Bob",
              preferences |-> [movie |-> [genres |-> <<>>]],
              history |-> EmptyDict]]

\* A movie record without "director": load_from_file raises KeyError on it.
BadMovieDict ==
    [id |-> "m2", title |-> "The Godfather", genre |-> <<"Crime", "Drama">>,
     year |-> 1972, rating |-> 92]

\* A catalog file whose second movie record is malformed.
PartlyBadDbFile ==
    DictFile([movies |-> <<to_dict(SampleMovies[1]), BadMovieDict>>,
              music |-> DictsOf(SampleMusic)])

\* A catalog file with the "movies" mapping only.
MoviesOnlyDbFile == DictFile([movies |-> DictsOf(SubSeq(SampleMovies, 3, 4))])

\* What load_data finds on disk: the catalog file and the profile file.
Disk(dbf, usf) == [db |-> dbf, users |-> usf]

Disks ==
    << Disk(MissingFile, MissingFile),
       Disk(GarbageFile, GarbageFile),
       Disk(save_to_file(SampleDb), DictFile(<<AnnEntry>>)),
       Disk(MissingFile, DictFile(<<AnnEntry>>)),
       Disk(save_to_file(SampleDb), ListFile),
       Disk(PartlyBadDbFile, DictFile(<<AnnEntry, BadEntry>>)),
       Disk(ListFile, DictFile(<<BadEntry, AnnEntry>>)),
       Disk(save_to_file(SampleDb), DictFile(<<SparseEntry>>)),
       Disk(save_to_file(SampleDb), DictFile(<<>>)) >>

(***************************************************************************)
(* The facade's operations as actions                                      *)
(***************************************************************************)
Called(op, args) == [op |-> op, args |-> args]

\* `if not self.current_user` is false: an id other than None and "".
Selected == current_user # None /\ current_user[1] # ""

CurrentProfile == users[current_user[1]]

\* EntertainmentAIAgent.__init__
Init ==
    /\ db = SampleDb
    /\ users = EmptyDict
    /\ current_user = None
    /\ dbfile = MissingFile
    /\ call = Called("__init__", <<>>)
    /\ ret = Return(None)

\* EntertainmentAIAgent.create_user
create_user(name) ==
    /\ Cardinality(DOMAIN users) < MaxUsers
    /\ LET user_id == UserId(Cardinality(DOMAIN users) + 1)
       IN  /\ users' = Put(users, user_id, UserProfile(user_id, name))
           /\ current_user' = Some(user_id)
           /\ call' = Called("create_user", <<name>>)
           /\ ret' = Return(user_id)
    /\ UNCHANGED <<db, dbfile>>

\* set_current_user without `if user_id in self.users`.
set_current_user_NoCheck(user_id) ==
    /\ current_user' = Some(user_id) /\ ret' = Return(TRUE)
    /\ call' = Called("set_current_user", <<user_id>>)
    /\ UNCHANGED <<db, users, dbfile>>

\* EntertainmentAIAgent.set_current_user
set_current_user(user_id) ==
    /\ IF user_id \in DOMAIN users
       THEN current_user' = Some(user_id) /\ ret' = Return(TRUE)
       ELSE current_user' = current_user /\ ret' = Return(FALSE)
    /\ call' = Called("set_current_user", <<user_id>>)
    /\ UNCHANGED <<db, users, dbfile>>

\* add_user_preference without `if not self.current_user: return False`:
\* self.users[None] raises KeyError.
add_user_preference_NoGuard(media_type, category, value) ==
    /\ IF ~Selected
       THEN users' = users /\ ret' = Raise("KeyError")
       ELSE /\ users' = [users EXCEPT ![current_user[1]] =
                            add_preference(@, media_type, category, value)]
            /\ ret' = Return(TRUE)
    /\ call' = Called("add_user_preference", <<media_type, category, value>>)
    /\ UNCHANGED <<db, current_user, dbfile>>

\* EntertainmentAIAgent.add_user_preference
add_user_preference(media_type, category, value) ==
    /\ IF ~Selected
       THEN users' = users /\ ret' = Return(FALSE)
       ELSE /\ users' = [users EXCEPT ![current_user[1]] =
                            add_preference(@, media_type, category, value)]
            /\ ret' = Return(TRUE)
    /\ call' = Called("add_user_preference", <<media_type, category, value>>)
    /\ UNCHANGED <<db, current_user, dbfile>>

\* EntertainmentAIAgent.add_to_history
add_to_history(media_type, item_id) ==
    /\ IF ~Selected
       THEN users' = users /\ ret' = Return(FALSE)
       ELSE /\ users' = [users EXCEPT ![current_user[1]] =
                            profile_add_to_history(@, media_type, item_id)]
            /\ ret' = Return(TRUE)
    /\ call' = Called("add_to_history", <<media_type, item_id>>)
    /\ UNCHANGED <<db, current_user, dbfile>>

\* EntertainmentAIAgent.get_recommendations
get_recommendations(media_type, count) ==
    /\ ret' = IF ~Selected THEN Return([error |-> "No user selected"])
              ELSE agent_recommendations(db, CurrentProfile, media_type,
                                         count)
    /\ call' = Called("get_recommendations", <<media_type, count>>)
    /\ UNCHANGED <<db, users, current_user, dbfile>>

\* EntertainmentAIAgent.get_trending
get_trending(media_type, count, current_year) ==
    /\ ret' = Return(agent_trending(db, media_type, count, current_year))
    /\ call' = Called("get_trending", <<media_type, count>>)
    /\ UNCHANGED <<db, users, current_user, dbfile>>

\* EntertainmentAIAgent.search
search(query, media_type) ==
    /\ ret' = Return(search_result(db, query, media_type))
    /\ call' = Called("search", <<query, media_type>>)
    /\ UNCHANGED <<db, users, current_user, dbfile>>

\* EntertainmentAIAgent.load_data, called with the disk as in Disks[i].
\* The value load_from_file returns is dropped; the value returned is the
\* one of the profile file's try block.
load_data(i) ==
    /\ db' = load_from_file(db, Disks[i].db).db
    /\ LET loaded == load_users(users, Disks[i].users)
       IN  users' = loaded.users /\ ret' = Return(loaded.ok)
    /\ call' = Called("load_data", <<i>>)
    /\ UNCHANGED <<current_user, dbfile>>

Next ==
    \/ \E name \in Names : create_user(name)
    \/ \E user_id \in UserIdArgs : set_current_user(user_id)
    \/ \E a \in PrefCalls : add_user_preference(a[1], a[2], a[3])
    \/ \E a \in HistCalls : add_to_history(a[1], a[2])
    \/ \E k \in KindArgs, n \in FacadeCounts : get_recommendations(k, n)
    \/ \E k \in TrendingKindArgs, n \in FacadeCounts, y \in CurrentYears :
          get_trending(k, n, y)
    \/ \E q \in FacadeQueries, k \in SearchKindArgs : search(q, k)
    \/ \E i \in 1..Len(Disks) : load_data(i)

Spec == Init /\ [][Next]_vars

(***************************************************************************)
(* Claims on the facade (specification Spec)                               *)
(***************************************************************************)
\* The item of the kind with the id, when the catalog holds one.
HasItem(d, kind, item_id) ==
    \E i \in 1..Len(get_items(d, kind)) :
        get_items(d, kind)[i].item_id = item_id

ItemOf(d, kind, item_id) ==
    LET items == get_items(d, kind)
    IN  items[CHOOSE i \in 1..Len(items) : items[i].item_id = item_id]

\* Every (kind, item) pair of the catalog.
AllScored(d) ==
    UNION { {<<k, get_items(d, k)[i]>> : i \in 1..Len(get_items(d, k))} :
            k \in Kinds }

\* C3, its case: a step of add_to_history(kind, id) with a current user, for
\* an item id of that kind whose score is defined and which is not yet in
\* the history.
C3_Case ==
    /\ call'.op = "add_to_history"
    /\ Selected
    /\ call'.args[1] \in Kinds
    /\ HasItem(db, call'.args[1], call'.args[2])
    /\ ~Raised(calculate_match_score(
                 ItemOf(db, call'.args[1], call'.args[2]),
                 CurrentProfile, call'.args[1]))
    /\ ~InList(call'.args[2], CurrentProfile.history[call'.args[1]])

\* C3: after add_to_history(kind, id) for an item not yet in the current
\* user's history, that item's match score is exactly 1.0 (100 hundredths)
\* lower than before, every other item's score is unchanged, the item is
\* still returned by get_recommendations for every count from the number of
\* items of the kind up, and an add_to_history for an id already in the
\* history changes no score.
C3_HistoryPenaltyIsExactlyOne ==
    [][ /\ C3_Case =>
            LET kind == call'.args[1]
                item == ItemOf(db, kind, call'.args[2])
                before == users[current_user[1]]
                after == users'[current_user[1]]
                n == Len(get_items(db, kind))
            IN  /\ calculate_match_score(item, after, kind) =
                     Return(calculate_match_score(item, before, kind).val[1]
                            - 100)
                /\ \A p \in AllScored(db) :
                     p # <<kind, item>> =>
                        calculate_match_score(p[2], after, p[1]) =
                        calculate_match_score(p[2], before, p[1])
                /\ \A count \in n..(n + 1) :
                     LET r == engine_get_recommendations(db, after, kind,
                                                         count)
                     IN  ~Raised(r) /\ InList(to_dict(item), r.val[1])
        /\ ( /\ call'.op = "add_to_history"
             /\ Selected
             /\ call'.args[1] \in DOMAIN CurrentProfile.history
             /\ InList(call'.args[2], CurrentProfile.history[call'.args[1]]) )
           => \A p \in AllScored(db) :
                 calculate_match_score(p[2], users'[current_user[1]], p[1]) =
                 calculate_match_score(p[2], users[current_user[1]], p[1])
      ]_vars

\* C3, witness: add_to_history("movie", "m3") has returned True for a user
\* who prefers the genre Action, and m3 scores 0.88 + 0.30 - 1.00 = 0.18.
C3_Witness ==
    /\ call = Called("add_to_history", <<"movie", "m3">>)
    /\ ret = Return(TRUE)
    /\ HasItem(db, "movie", "m3")
    /\ calculate_match_score(ItemOf(db, "movie", "m3"), CurrentProfile,
                             "movie") = Return(18)

\* C7: whenever load_data returns False, the users and each profile are
\* what they were before the call.
C7_FailedLoadLeavesProfiles ==
    [][ (call'.op = "load_data" /\ ret' = Return(FALSE)) => users' = users
      ]_vars

\* C8: load_data returns True only when the catalog file was loaded
\* successfully (and the profile file too).
C8_LoadDataReportsFailure ==
    [][ (call'.op = "load_data" /\ ret' = Return(TRUE)) =>
           /\ load_from_file(db, Disks[call'.args[1]].db).ok
           /\ load_users(users, Disks[call'.args[1]].users).ok
      ]_vars

\* C9: no operation of the facade raises an exception to its caller.
C9_NoOperationRaises == ~Raised(ret)

\* C10: create_user returns an id no existing profile held, and every
\* profile present before the call is still present, unchanged.
C10_CreateUserIdIsFresh ==
    [][ call'.op = "create_user" =>
           /\ ret'.val[1] \notin DOMAIN users
           /\ \A id \in DOMAIN users :
                 id \in DOMAIN users' /\ users'[id] = users[id]
      ]_vars

\* C12: while no user is selected, add_user_preference and add_to_history
\* return False, get_recommendations returns {"error": "No user selected"},
\* and none of the three changes a profile, the catalog or the selection.
C12_NoCurrentUserIsReported ==
    [][ ( /\ current_user = None
          /\ call'.op \in {"add_user_preference", "add_to_history",
                           "get_recommendations"} ) =>
           /\ IF call'.op = "get_recommendations"
              THEN /\ ~Raised(ret')
                   /\ DOMAIN ret'.val[1] = {"error"}
                   /\ ret'.val[1].error = "No user selected"
              ELSE ret' = Return(FALSE)
           /\ users' = users
           /\ db' = db
           /\ current_user' = current_user
      ]_vars

\* C12, witness: profiles were loaded, none was selected, and
\* add_user_preference returned False.
C12_Witness ==
    /\ current_user = None
    /\ users # EmptyDict
    /\ call.op = "add_user_preference"
    /\ ret = Return(FALSE)

\* C14: the current user is None or the id of a profile in users;
\* set_current_user with an id not in users returns False and leaves the
\* current user as it was; create_user makes the profile it created the
\* current user.
C14_CurrentUserIsAProfile ==
    /\ [](current_user = None \/ current_user[1] \in DOMAIN users)
    /\ [][ /\ ( /\ call'.op = "set_current_user"
                /\ call'.args[1] \notin DOMAIN users ) =>
                  ret' = Return(FALSE) /\ current_user' = current_user
           /\ call'.op = "create_user" =>
                /\ current_user' = Some(ret'.val[1])
                /\ ret'.val[1] \in DOMAIN users'
                /\ users'[ret'.val[1]] =
                     UserProfile(ret'.val[1], call'.args[1])
         ]_vars

\* C14, witness: with user_1 current and two profiles present,
\* set_current_user("nobody") returned False and user_1 is still current.
C14_Witness ==
    /\ call = Called("set_current_user", <<"nobody">>)
    /\ ret = Return(FALSE)
    /\ current_user = Some("user_1")
    /\ Cardinality(DOMAIN users) = 2

(***************************************************************************)
(* The scorer on its own (specification SpecScore): one profile, drawn     *)
(* from the profiles add_preference and add_to_history can build, and      *)
(* calculate_match_score applied to the items of the sample catalog.       *)
(***************************************************************************)
MoviePrefs ==
    [genres : {<<>>, <<"Action", "Sci-Fi">>, <<"Drama">>},
     actors : {<<>>, <<"Leonardo DiCaprio">>,
               <<"Joseph Gordon-Levitt", "Leonardo DiCaprio">>},
     directors : {<<>>, <<"Christopher Nolan">>},
     years : {<<>>, <<2010>>, <<2005>>, <<2015, 2010>>, <<2004>>,
              <<2024, 1999>>},
     ratings : {<<>>}]

MusicPrefs ==
    [genres : {<<>>, <<"Rock">>, <<"Pop", "R&B">>},
     artists : {<<>>, <<"Queen">>, <<"AC/DC", "Queen">>},
     years : {<<>>, <<1980>>, <<1977>>, <<2020, 1975>>},
     ratings : {<<>>, <<9>>}]

BookPrefs ==
    [genres : {<<>>, <<"Dystopian", "Science Fiction">>, <<"Fantasy">>},
     authors : {<<>>, <<"J.R.R. Tolkien">>},
     years : {<<>>, <<1954>>, <<1955>>, <<2013>>},
     ratings : {<<>>}]

GamePrefs ==
    [genres : {<<>>, <<"Action", "Adventure">>},
     developers : {<<>>, <<"Nintendo">>},
     platforms : {<<>>, <<"PC">>, <<"PC", "Nintendo Switch", "Xbox One">>,
                  <<"Wii U">>},
     years : {<<>>, <<2017>>, <<2012>>},
     ratings : {<<>>}]

PrefsPool(kind) ==
    CASE kind = "movie" -> MoviePrefs
      [] kind = "music" -> MusicPrefs
      [] kind = "book" -> BookPrefs
      [] kind = "game" -> GamePrefs

HistoryPool(kind) ==
    CASE kind = "movie" -> {<<>>, <<"m3">>, <<"m1", "m3">>}
      [] kind = "music" -> {<<>>, <<"mu1">>, <<"mu3", "mu1">>}
      [] kind = "book" -> {<<>>, <<"b3">>, <<"b4", "b3">>}
      [] kind = "game" -> {<<>>, <<"g1">>, <<"g2", "g1">>}

\* A profile every kind of which holds preferences and history that match
\* items of the other kinds.
CrowdedProfile ==
    LET g == <<"Action", "Drama", "Rock", "Pop", "Fantasy", "Adventure",
               "Sci-Fi", "Dystopian">>
        y == <<2010, 2019, 1975, 1954, 2017, 1994>>
        h == <<"m1", "m3", "mu1", "b3", "g1", "g2">>
    IN  [UserProfile("u", "Test") EXCEPT
           !.preferences =
              [movie |-> [genres |-> g, actors |-> <<"Queen", "Nintendo">>,
                          directors |-> <<"Queen", "J.R.R. Tolkien">>,
                          years |-> y, ratings |-> <<>>],
               music |-> [genres |-> g,
                          artists |-> <<"Christopher Nolan", "Nintendo">>,
                          years |-> y, ratings |-> <<>>],
               book |-> [genres |-> g,
                         authors |-> <<"Christopher Nolan", "Queen">>,
                         years |-> y, ratings |-> <<>>],
               game |-> [genres |-> g,
                         developers |-> <<"Queen", "Christopher Nolan">>,
                         platforms |-> <<"Leonardo DiCaprio">>,
                         years |-> y, ratings |-> <<>>]],
           !.history = [movie |-> h, music |-> h, book |-> h, game |-> h]]

\* The profile with the kind's preferences and history as given, the other
\* kinds empty or crowded.
TestProfile(kind, prefs, hist, crowded) ==
    [(IF crowded THEN CrowdedProfile ELSE UserProfile("u", "Test")) EXCEPT
        !.preferences[kind] = prefs, !.history[kind] = hist]

TestProfiles ==
    UNION { {TestProfile(k, p, h, c) :
                p \in PrefsPool(k), h \in HistoryPool(k), c \in BOOLEAN} :
            k \in Kinds }

InitScore ==
    /\ db = SampleDb
    /\ users \in {[k \in {"u"} |-> p] : p \in TestProfiles}
    /\ current_user = None
    /\ dbfile = MissingFile
    /\ call = Called("__init__", <<>>)
    /\ ret = Return(None)

\* engine.calculate_match_score(item, user, media_type), item the i-th item
\* of the kind.  The call writes nothing it reads, so one call per
\* behaviour reaches every result.
score_item(media_type, i) ==
    /\ call.op = "__init__"
    /\ i \in 1..Len(get_items(db, media_type))
    /\ call' = Called("calculate_match_score", <<media_type, i>>)
    /\ ret' = calculate_match_score(get_items(db, media_type)[i], users["u"],
                                    media_type)
    /\ UNCHANGED <<db, users, current_user, dbfile>>

NextScore == \E k \in Kinds, i \in 1..MaxItems : score_item(k, i)

SpecScore == InitScore /\ [][NextScore]_vars

\* The additive reference of C2, in hundredths, over sets.
RefScore(item, user, kind) ==
    LET P == user.preferences[kind]
        Count(xs, prefs) ==
            Cardinality({i \in 1..Len(xs) : xs[i] \in Range(prefs)})
        genre_part == 30 * Count(item.genre, P.genres)
        year_part ==
            IF item.year \in Range(P.years) THEN 20
            ELSE IF \E y \in Range(P.years) :
                       item.year - 5 <= y /\ y <= item.year + 5
                 THEN 10
            ELSE 0
        kind_part ==
            CASE kind = "movie" ->
                   (IF item.director \in Range(P.directors) THEN 20 ELSE 0)
                   + 15 * Count(item.actors, P.actors)
              [] kind = "music" ->
                   (IF item.artist \in Range(P.artists) THEN 40 ELSE 0)
              [] kind = "book" ->
                   (IF item.author \in Range(P.authors) THEN 40 ELSE 0)
              [] kind = "game" ->
                   (IF item.developer \in Range(P.developers) THEN 20 ELSE 0)
                   + (IF Range(item.platforms) \cap Range(P.platforms) # {}
                      THEN 20 ELSE 0)
        history_part ==
            IF item.item_id \in Range(user.history[kind]) THEN 100 ELSE 0
    IN  item.rating + genre_part + year_part + kind_part - history_part

\* The profile of the spec's scenario: genres Action and Sci-Fi and the
\* actor Leonardo DiCaprio preferred, no preferred years.
ScenarioPrefs(user) ==
    /\ Range(user.preferences["movie"]["genres"]) = {"Action", "Sci-Fi"}
    /\ Range(user.preferences["movie"]["actors"]) = {"Leonardo DiCaprio"}
    /\ user.preferences["movie"]["directors"] = <<>>
    /\ user.preferences["movie"]["years"] = <<>>

\* C2: calculate_match_score equals the additive reference (rating/10, 0.30
\* per preferred item genre, one of 0.20 / 0.10 / 0 for the year, the kind
\* bonus with the platform bonus at most once, minus 1.00 for an item in
\* the history); m3 scores 1.63 for the scenario's profile with an empty
\* history and 0.63 with m3 in the history.
C2_ScoreIsAdditiveReference ==
    call.op = "calculate_match_score" =>
        LET kind == call.args[1]
            item == get_items(db, kind)[call.args[2]]
            user == users["u"]
        IN  /\ ret = Return(RefScore(item, user, kind))
            /\ (item.item_id = "m3" /\ kind = "movie" /\ ScenarioPrefs(user))
               => /\ user.history["movie"] = <<>> => ret = Return(163)
                  /\ "m3" \in Range(user.history["movie"])
                        => ret = Return(63)

\* C2, witness: m3 scored 0.63 for the scenario's profile with m3 in the
\* history.
C2_Witness ==
    /\ call = Called("calculate_match_score", <<"movie", 3>>)
    /\ ScenarioPrefs(users["u"])
    /\ users["u"].history["movie"] = <<"m3">>
    /\ ret = Return(63)

(***************************************************************************)
(* The engine's ranking on its own (specification SpecRec): a catalog the  *)
(* add_* operations can build, one profile, and get_recommendations called *)
(* with every kind and count.                                              *)
(***************************************************************************)
\* The largest count asked for.
MaxCount == 7

\* Counts down to -MaxDrop are asked for.
MaxDrop == 2

\* The sample catalog with a sixth movie rated as m3 and a sixth game rated
\* as g1, added last.
TieDb ==
    add_game(
      add_movie(SampleDb,
                Movie("m6", "Interstellar", <<"Adventure", "Sci-Fi">>, 2014,
                      88, "Christopher Nolan",
                      <<"Matthew McConaughey", "Anne Hathaway">>, 169)),
      Game("g6", "Elden Ring", <<"Action", "RPG">>, 2022, 95,
           "FromSoftware", <<"PC", "PlayStation 5", "Xbox One">>, TRUE))

RecProfiles ==
    UNION { {TestProfile(k, p, h, FALSE) :
                p \in {q \in PrefsPool(k) : q.years = <<>> /\ q.ratings = <<>>},
                h \in HistoryPool(k)} :
            k \in Kinds }

InitRec ==
    /\ db \in {SampleDb, TieDb}
    /\ users \in {[k \in {"u"} |-> p] : p \in RecProfiles}
    /\ current_user = None
    /\ dbfile = MissingFile
    /\ call = Called("__init__", <<>>)
    /\ ret = Return(None)

\* engine.get_recommendations(user, media_type, count); one call per
\* behaviour, as for score_item.
recommend(media_type, count) ==
    /\ call.op = "__init__"
    /\ call' = Called("get_recommendations", <<media_type, count>>)
    /\ ret' = engine_get_recommendations(db, users["u"], media_type, count)
    /\ UNCHANGED <<db, users, current_user, dbfile>>

NextRec ==
    \E k \in Kinds, n \in (0 - MaxDrop)..MaxCount : recommend(k, n)

SpecRec == InitRec /\ [][NextRec]_vars

\* The place in the catalog of the item a returned dict is of (0: none).
CatalogIndex(items, dict) ==
    IF \E i \in 1..Len(items) : to_dict(items[i]) = dict
    THEN CHOOSE i \in 1..Len(items) : to_dict(items[i]) = dict
    ELSE 0

\* C1: for count >= 0, get_recommendations returns exactly
\* min(count, number of items of the kind) items of the kind, no item twice,
\* in non-increasing order of match score, items of equal score in catalog
\* insertion order; count = 0 gives the empty sequence.
C1_TopCountStableDescending ==
    (call.op = "get_recommendations" /\ call.args[2] >= 0) =>
        LET kind == call.args[1]
            count == call.args[2]
            items == get_items(db, kind)
            Score(i) ==
                calculate_match_score(items[i], users["u"], kind).val[1]
            got == ret.val[1]
            At(j) == CatalogIndex(items, got[j])
        IN  /\ ~Raised(ret)
            /\ Len(got) = Min(count, Len(items))
            /\ count = 0 => got = <<>>
            /\ \A j \in 1..Len(got) : At(j) # 0
            /\ \A j, k \in 1..Len(got) :
                  j < k => /\ At(j) # At(k)
                           /\ Score(At(j)) >= Score(At(k))
                           /\ Score(At(j)) = Score(At(k)) => At(j) < At(k)

\* C1, witness: a call returned fewer items than the kind has, with two
\* items of equal score next to each other.
C1_Witness ==
    /\ call.op = "get_recommendations"
    /\ call.args[2] >= 2
    /\ ~Raised(ret)
    /\ Len(ret.val[1]) = call.args[2]
    /\ Len(ret.val[1]) < Len(get_items(db, call.args[1]))
    /\ \E j \in 1..(Len(ret.val[1]) - 1) :
          LET items == get_items(db, call.args[1])
              a == items[CatalogIndex(items, ret.val[1][j])]
              b == items[CatalogIndex(items, ret.val[1][j + 1])]
          IN  calculate_match_score(a, users["u"], call.args[1]) =
              calculate_match_score(b, users["u"], call.args[1])

(***************************************************************************)
(* Both rankings of the engine (specification SpecRank): the catalogs and  *)
(* profiles of SpecRec, and one call of get_recommendations or of          *)
(* get_trending with every kind and count.                                 *)
(***************************************************************************)
\* datetime.now().year at the call of get_trending.
TrendYears == {2024, 2025}

\* engine.get_trending(media_type, count) in the year current_year; one call
\* per behaviour.
trend(media_type, count, current_year) ==
    /\ call.op = "__init__"
    /\ call' = Called("get_trending", <<media_type, count, current_year>>)
    /\ ret' = Return(engine_get_trending(db, media_type, count, current_year))
    /\ UNCHANGED <<db, users, current_user, dbfile>>

NextTrend ==
    \E k \in Kinds, n \in (0 - MaxDrop)..MaxCount, y \in TrendYears :
        trend(k, n, y)

NextRank == NextRec \/ NextTrend

SpecRank == InitRec /\ [][NextRank]_vars

\* C11: in the list get_trending returns, of two items of equal rating and
\* different years the one of the later year is not after the one of the
\* earlier year, and of two items of the same year the higher rated one is
\* not after the lower rated one.
C11_TrendingNewerAndHigherFirst ==
    call.op = "get_trending" =>
        LET items == get_items(db, call.args[1])
            got == ret.val[1]
            At(j) == items[CatalogIndex(items, got[j])]
        IN  \A j, k \in 1..Len(got) :
               j < k =>
                  /\ ~(At(j).rating = At(k).rating /\ At(j).year < At(k).year)
                  /\ ~(At(j).year = At(k).year /\ At(j).rating < At(k).rating)

\* C13: for every count, get_recommendations and get_trending return
\* max(0, min(count, number of items of the kind)) items.
C13_LengthIsCountClamped ==
    call.op \in {"get_recommendations", "get_trending"} =>
        /\ ~Raised(ret)
        /\ Len(ret.val[1]) =
             Max(0, Min(call.args[2], Len(get_items(db, call.args[1]))))

(***************************************************************************)
(* One UserProfile on its own (specification SpecProfile): the constructor *)
(* followed by add_preference and add_to_history calls.                    *)
(***************************************************************************)
\* (media_type, category, value): names and years, known and unknown kinds
\* and categories ("artists" is no category of a movie).
ProfilePrefCalls ==
    ({"movie", "podcast"} \X {"genres", "artists", "mood"}
        \X {"Action", "Drama"})
    \cup ({"movie", "podcast"} \X {"years"} \X {2010, 1999})

ProfileHistCalls == {"movie", "game", "podcast"} \X {"m1", "m3"}

InitProfile ==
    /\ db = SampleDb
    /\ users = [k \in {"u"} |-> UserProfile("u", "Test")]
    /\ current_user = None
    /\ dbfile = MissingFile
    /\ call = Called("__init__", <<>>)
    /\ ret = Return(None)

\* user.add_preference(media_type, category, value)
profile_add_preference(media_type, category, value) ==
    /\ users' = [users EXCEPT !["u"] =
                    add_preference(@, media_type, category, value)]
    /\ call' = Called("add_preference", <<media_type, category, value>>)
    /\ ret' = Return(None)
    /\ UNCHANGED <<db, current_user, dbfile>>

\* user.add_to_history(media_type, item_id)
profile_add_history(media_type, item_id) ==
    /\ users' = [users EXCEPT !["u"] =
                    profile_add_to_history(@, media_type, item_id)]
    /\ call' = Called("add_to_history", <<media_type, item_id>>)
    /\ ret' = Return(None)
    /\ UNCHANGED <<db, current_user, dbfile>>

NextProfile ==
    \/ \E a \in ProfilePrefCalls : profile_add_preference(a[1], a[2], a[3])
    \/ \E a \in ProfileHistCalls : profile_add_history(a[1], a[2])

SpecProfile == InitProfile /\ [][NextProfile]_vars

\* No value twice in the list.
NoDuplicates(lst) == \A i, j \in 1..Len(lst) : lst[i] = lst[j] => i = j

\* The categories the constructor gives each kind.
RecognizedCategories(kind) ==
    CASE kind = "movie" -> {"genres", "actors", "directors", "years", "ratings"}
      [] kind = "music" -> {"genres", "artists", "years", "ratings"}
      [] kind = "book" -> {"genres", "authors", "years", "ratings"}
      [] kind = "game" ->
           {"genres", "developers", "platforms", "years", "ratings"}
      [] OTHER -> {}

\* C4: on a constructor-made profile, a call with an unrecognized kind or
\* category changes nothing and raises nothing; a recognized call appends
\* the value exactly when it is absent; so no list ever holds a value twice
\* and making the same call again changes nothing.
C4_AddIsIdempotentNoop ==
    [][ LET u == users["u"]
            v == users'["u"]
        IN  /\ call'.op = "add_preference" =>
                LET kind == call'.args[1]
                    cat == call'.args[2]
                    value == call'.args[3]
                IN  /\ ~Raised(ret')
                    /\ IF kind \in Kinds /\ cat \in RecognizedCategories(kind)
                       THEN /\ v.history = u.history
                            /\ v.preferences =
                                 [u.preferences EXCEPT ![kind][cat] =
                                    IF value \in Range(@) THEN @
                                    ELSE Append(@, value)]
                       ELSE v = u
                    /\ add_preference(v, kind, cat, value) = v
            /\ call'.op = "add_to_history" =>
                LET kind == call'.args[1]
                    item_id == call'.args[2]
                IN  /\ ~Raised(ret')
                    /\ IF kind \in Kinds
                       THEN /\ v.preferences = u.preferences
                            /\ v.history =
                                 [u.history EXCEPT ![kind] =
                                    IF item_id \in Range(@) THEN @
                                    ELSE Append(@, item_id)]
                       ELSE v = u
                    /\ profile_add_to_history(v, kind, item_id) = v
            /\ \A kind \in DOMAIN v.preferences :
                  \A cat \in DOMAIN v.preferences[kind] :
                     NoDuplicates(v.preferences[kind][cat])
            /\ \A kind \in DOMAIN v.history : NoDuplicates(v.history[kind])
      ]_vars

\* C4, witness: add_preference("movie", "genres", "Drama") was called again
\* after Action had followed Drama into the list, and the list kept one
\* Drama, in a profile that also holds a year and two history entries.
C4_Witness ==
    /\ call = Called("add_preference", <<"movie", "genres", "Drama">>)
    /\ users["u"].preferences["movie"]["genres"] = <<"Drama", "Action">>
    /\ users["u"].preferences["movie"]["years"] = <<2010>>
    /\ users["u"].history["movie"] = <<"m3", "m1">>

(***************************************************************************)
(* search on its own (specification SpecSearch): a catalog and one call.   *)
(***************************************************************************)
SearchQueries ==
    {"", "action", "ACTION", "Sci-Fi", "sci", "the", "The ", "THE G",
     "drama", "r&b", "rock", "1984", "zzz", "a", "ring", "Adventure",
     "survival", "e"}

\* None (all kinds), the four kinds, and two strings that name no kind.
SearchKinds ==
    {None, Some("movie"), Some("music"), Some("book"), Some("game"),
     Some("podcast"), Some("")}

\* The catalog after a load of MoviesOnlyDbFile: two movies, nothing else.
MoviesOnlyDb == load_from_file(SampleDb, MoviesOnlyDbFile).db

InitSearch ==
    /\ db \in {SampleDb, TieDb, MoviesOnlyDb}
    /\ users = EmptyDict
    /\ current_user = None
    /\ dbfile = MissingFile
    /\ call = Called("__init__", <<>>)
    /\ ret = Return(None)

\* agent.search(query, media_type); one call per behaviour, as for
\* score_item.
search_once(query, media_type) ==
    /\ call.op = "__init__"
    /\ search(query, media_type)

NextSearch == \E q \in SearchQueries, k \in SearchKinds : search_once(q, k)

SpecSearch == InitSearch /\ [][NextSearch]_vars

\* The item matches: its lower-cased title contains the lower-cased query,
\* or some genre's lower-cased text does.
RefMatches(item, query) ==
    \/ Contains(Lower(item.title), Lower(query))
    \/ \E g \in Range(item.genre) : Contains(Lower(g), Lower(query))

\* C5: search returns a mapping in which a kind's group is present iff the
\* kind is selected (by its name, or by None for all) and some item of it
\* matches, and a present group is exactly the matching items of the kind,
\* in catalog order; a string naming no kind gives the empty mapping.
C5_SearchGroupsMatchesByKind ==
    call.op = "search" =>
        LET query == call.args[1]
            media_type == call.args[2]
            found == ret.val[1]
        IN  /\ ~Raised(ret)
            /\ DOMAIN found \subseteq {Coll(k) : k \in Kinds}
            /\ \A kind \in Kinds :
                  LET items == get_items(db, kind)
                      hits == {i \in 1..Len(items) :
                                  RefMatches(items[i], query)}
                      selected == media_type = None \/ media_type = Some(kind)
                  IN  /\ Coll(kind) \in DOMAIN found
                          <=> (selected /\ hits # {})
                      /\ Coll(kind) \in DOMAIN found =>
                          LET group == found[Coll(kind)]
                          IN  /\ Len(group) = Cardinality(hits)
                              /\ \A i \in hits :
                                    group[Cardinality({h \in hits : h <= i})]
                                       = to_dict(items[i])
            /\ (media_type # None /\ media_type[1] \notin Kinds)
                  => found = EmptyDict

\* C5, witness: search("ACTION") over all kinds returned the movies and
\* games with the genre Action and no music or books group; no title
\* contains "action".
C5_Witness ==
    /\ call = Called("search", <<"ACTION", None>>)
    /\ db = SampleDb
    /\ DOMAIN ret.val[1] = {"movies", "games"}
    /\ Len(ret.val[1]["movies"]) = 2
    /\ Len(ret.val[1]["games"]) = 3
    /\ ret.val[1]["movies"][1].id = "m3"

(***************************************************************************)
(* The catalog on its own (specification SpecCatalog): the sample data,    *)
(* add_* calls, save_to_file and load_from_file of the file saved.         *)
(***************************************************************************)
\* A new movie, and a movie that takes m1's id.
NewMovies ==
    { Movie("m6", "Interstellar", <<"Adventure", "Sci-Fi">>, 2014, 88,
            "Christopher Nolan", <<"Matthew McConaughey">>, 169),
      Movie("m1", "The Green Mile", <<"Crime", "Drama">>, 1999, 86,
            "Frank Darabont", <<"Tom Hanks">>, 189) }

\* A track with neither album nor duration, and one with an album only.
NewMusic ==
    { Music("mu6", "Hey Jude", <<"Rock">>, 1968, 91, "The Beatles",
            None, None),
      Music("mu2", "Billie Jean", <<"Pop">>, 1983, 93, "Michael Jackson",
            Some("Thriller"), None) }

NewBooks ==
    { Book("b6", "Dune", <<"Science Fiction">>, 1965, 90, "Frank Herbert",
           412, "Chilton Books") }

\* A game with no genre and no platform.
NewGames ==
    { Game("g6", "Tetris", <<>>, 1984, 89, "Alexey Pajitnov", <<>>, TRUE) }

InitCatalog ==
    /\ db = SampleDb
    /\ users = EmptyDict
    /\ current_user = None
    /\ dbfile = MissingFile
    /\ call = Called("__init__", <<>>)
    /\ ret = Return(None)

\* db.add_movie / add_music / add_book / add_game
catalog_add(op, d, item) ==
    /\ db' = d
    /\ call' = Called(op, <<item.item_id>>)
    /\ ret' = Return(None)
    /\ UNCHANGED <<users, current_user, dbfile>>

\* db.save_to_file()
catalog_save ==
    /\ dbfile' = save_to_file(db)
    /\ call' = Called("save_to_file", <<>>)
    /\ ret' = Return(None)
    /\ UNCHANGED <<db, users, current_user>>

\* db.load_from_file()
catalog_load ==
    /\ db' = load_from_file(db, dbfile).db
    /\ call' = Called("load_from_file", <<>>)
    /\ ret' = Return(load_from_file(db, dbfile).ok)
    /\ UNCHANGED <<users, current_user, dbfile>>

NextCatalog ==
    \/ \E m \in NewMovies : catalog_add("add_movie", add_movie(db, m), m)
    \/ \E m \in NewMusic : catalog_add("add_music", add_music(db, m), m)
    \/ \E b \in NewBooks : catalog_add("add_book", add_book(db, b), b)
    \/ \E g \in NewGames : catalog_add("add_game", add_game(db, g), g)
    \/ catalog_save
    \/ catalog_load

SpecCatalog == InitCatalog /\ [][NextCatalog]_vars

\* The ids of a collection.
Ids(coll) == {coll[i].item_id : i \in 1..Len(coll)}

\* The same set of ids, each mapped to an item with the same field values.
SameItems(a, b) ==
    /\ Ids(a) = Ids(b)
    /\ \A i \in 1..Len(a), j \in 1..Len(b) :
          a[i].item_id = b[j].item_id => a[i] = b[j]

\* C6: load_from_file right after save_to_file returns True and leaves each
\* of the four collections with the same ids and the same field values.
C6_SaveLoadRoundTrip ==
    [][ (call.op = "save_to_file" /\ call'.op = "load_from_file") =>
           /\ ret' = Return(TRUE)
           /\ \A c \in {"movies", "music", "books", "games"} :
                 SameItems(db'[c], db[c])
      ]_vars

\* C6, witness: a load that followed a save returned True on a catalog that
\* holds the track without album and duration, the movie that replaced m1
\* and the game without genres.
C6_Witness ==
    /\ call.op = "load_from_file"
    /\ ret = Return(TRUE)
    /\ dbfile = save_to_file(db)
    /\ \E i \in 1..Len(db.music) :
          db.music[i].item_id = "mu6" /\ db.music[i].album = None
    /\ db.movies[1].title = "The Green Mile"
    /\ "g6" \in Ids(db.games)

============================================================================
